---- MODULE Spec2Model ----
(***************************************************************************)
(* CRx (chain reaction) game: the cell, the explosion queue, the turn and  *)
(* win logic of src/src/cell.py and src/src/game.py, and the frame loop of *)
(* Game.run with the restart loop of run_game.py.                          *)
(***************************************************************************)
EXTENDS Integers, Sequences, FiniteSets, TLC

(* ------------------------------ constants ------------------------------ *)

GRID_SIZE == 6
WINDOW_WIDTH == 800
WINDOW_HEIGHT == 800
UI_SPACE == 60
LAST_INDEX == 5
MIN_PLAYERS == 2
MAX_PLAYERS == 4

\* Python's None for an optional player id (players are 0..num_players-1).
None == -1

Min(a, b) == IF a < b THEN a ELSE b

AVAILABLE_SPACE == Min(WINDOW_WIDTH, WINDOW_HEIGHT) - UI_SPACE
CELL_SIZE == AVAILABLE_SPACE \div GRID_SIZE
grid_offset_x == (WINDOW_WIDTH - (GRID_SIZE * CELL_SIZE)) \div 2
grid_offset_y == (WINDOW_HEIGHT - (GRID_SIZE * CELL_SIZE)) \div 2

(* ------------------------------- bounds -------------------------------- *)

\* accepted moves per game that the model explores
MaxMoves == 7
\* clicks land on the first ClickCells cells of ClickOrder, or outside the grid
ClickCells == 4
\* the animation list is tracked by its length, saturating at this value
MaxAnimations == 2
\* boards handed to check_win_condition: how many cells take every content
VariedCells == 3

\* explosion steps followed when a chain is run to its end inside a formula
MaxChainSteps == 12

Rows == 0 .. (GRID_SIZE - 1)
Positions == Rows \X Rows

(* -------------------------------- Cell --------------------------------- *)

calculate_critical_mass_or_for_and(row, col) ==
    LET is_corner == row \in {0, LAST_INDEX} \/ col \in {0, LAST_INDEX}
    IN  IF is_corner THEN 2 ELSE 4

\* Cell._calculate_critical_mass
calculate_critical_mass(row, col) ==
    LET is_corner == row \in {0, LAST_INDEX} /\ col \in {0, LAST_INDEX}
        is_edge == row \in {0, LAST_INDEX} \/ col \in {0, LAST_INDEX}
    IN  IF is_corner THEN 2 ELSE IF is_edge THEN 3 ELSE 4

\* Cell.__init__
Cell(r, c) ==
    [row |-> r, col |-> c, orbs |-> <<>>, owner |-> None,
     critical_mass |-> calculate_critical_mass(r, c)]

add_orb_keeps_colours(cell, player) ==
    IF cell.orbs = <<>> \/ cell.owner = player
    THEN [cell EXCEPT !.orbs = Append(@, player), !.owner = player]
    ELSE [cell EXCEPT !.owner = player]

add_orb_appends_on_empty_only(cell, player) ==
    IF cell.orbs = <<>>
    THEN [cell EXCEPT !.orbs = Append(@, player), !.owner = player]
    ELSE [cell EXCEPT !.orbs = [i \in 1 .. Len(@) |-> player],
                      !.owner = player]

\* Cell.add_orb: the cell after the call
add_orb(cell, player) ==
    IF cell.orbs = <<>> \/ cell.owner = player
    THEN [cell EXCEPT !.orbs = Append(@, player), !.owner = player]
    ELSE [cell EXCEPT !.orbs = [i \in 1 .. Len(@) |-> player],
                      !.owner = player]

add_orb_returns_strict(cell) == Len(cell.orbs) > cell.critical_mass

\* Cell.add_orb: its return value, read off the cell after the call
add_orb_returns(cell) == Len(cell.orbs) >= cell.critical_mass

explode_keeping_orbs(cell) == [cell EXCEPT !.owner = None]

\* Cell.explode: the cell after the call
explode(cell) == [cell EXCEPT !.orbs = <<>>, !.owner = None]

explode_returns_clipped(cell) ==
    SelectSeq(<< <<cell.row + 1, cell.col>>, <<cell.row - 1, cell.col>>,
                 <<cell.row, cell.col + 1>>, <<cell.row, cell.col - 1>> >>,
              LAMBDA t : t[1] \in Rows /\ t[2] \in Rows)

\* Cell.explode: the returned coordinates (down, up, right, left)
explode_returns(cell) ==
    << <<cell.row + 1, cell.col>>, <<cell.row - 1, cell.col>>,
       <<cell.row, cell.col + 1>>, <<cell.row, cell.col - 1>> >>

(* -------------------------------- Game --------------------------------- *)

VARIABLES
    num_players,            \* Game.num_players
    grid,                   \* Game.grid: position -> cell
    current_player,         \* Game.current_player
    move_count,             \* Game.move_count
    animations,             \* length of Game.animations
    is_animating,           \* Game.is_animating
    explosion_queue,        \* Game.explosion_queue
    processing_explosions,  \* Game.processing_explosions
    game_should_reset,      \* Game.game_should_reset
    game_should_close,      \* Game.game_should_close
    post_explosion_winner,  \* Game.post_explosion_winner
    game_started,           \* Game.game_started
    players_who_played,     \* Game.players_who_played
    running,                \* local of Game.run
    winner,                 \* local of Game.run
    pc,                     \* "run" inside Game.run, "returned" after it
    result,                 \* what Game.run returned
    last                    \* the last operation: its kind, handle_click's
                            \* return value, whether it evaluated the win check

core == <<grid, current_player, move_count, game_started, players_who_played,
          explosion_queue, processing_explosions>>

vars == <<num_players, grid, current_player, move_count, animations,
          is_animating, explosion_queue, processing_explosions,
          game_should_reset, game_should_close, post_explosion_winner,
          game_started, players_who_played, running, winner, pc, result,
          last>>

Players(n) == 0 .. (n - 1)

\* the bounds test of handle_click and handle_single_explosion
in_grid(row, col) ==
    0 <= row /\ row < GRID_SIZE /\ 0 <= col /\ col < GRID_SIZE

\* Python's "in" on the queue list
in_queue(q, p) == \E i \in 1 .. Len(q) : q[i] = p

transfer_orb_twice(g, target, exploding_player) ==
    add_orb(add_orb(g[target], exploding_player), exploding_player)

transfer_orb_to_the_owner(g, target, exploding_player) ==
    add_orb(g[target], IF g[target].owner = None
                       THEN exploding_player
                       ELSE g[target].owner)

transfer_orb_of_current_player(g, target, exploding_player) ==
    add_orb(g[target], current_player)

\* the loop over adjacent_cells in handle_single_explosion: the cell at
\* target after the loop.  The four targets are distinct cells, none of them
\* the exploded one, so each receives exactly one add_orb.
transfer_orb(g, target, exploding_player) ==
    add_orb(g[target], exploding_player)

chain_queued_above_critical(g, q, target, exploding_player) ==
    /\ in_grid(target[1], target[2])
    /\ LET target_cell == transfer_orb(g, target, exploding_player)
       IN  Len(target_cell.orbs) > target_cell.critical_mass
    /\ ~in_queue(q, target)

chain_queued_without_membership_test(g, q, target, exploding_player) ==
    /\ in_grid(target[1], target[2])
    /\ LET target_cell == transfer_orb(g, target, exploding_player)
       IN  Len(target_cell.orbs) >= target_cell.critical_mass

\* the test that appends a target to the queue; q is the queue at the start
\* of the loop (a target is appended at most once, in its own turn)
chain_queued(g, q, target, exploding_player) ==
    /\ in_grid(target[1], target[2])
    /\ LET target_cell == transfer_orb(g, target, exploding_player)
       IN  Len(target_cell.orbs) >= target_cell.critical_mass
    /\ ~in_queue(q, target)

handle_single_explosion_unguarded(g, q, a, row, col) ==
    LET cell == g[<<row, col>>]
        exploding_player == cell.owner
        adjacent_cells == explode_returns(cell)
        targets == {adjacent_cells[i] : i \in 1 .. 4}
        reached == {t \in targets : in_grid(t[1], t[2])}
        queued(t) == chain_queued(g, q, t, exploding_player)
    IN  [grid |-> [pos \in Positions |->
                      IF pos = <<row, col>> THEN explode(cell)
                      ELSE IF pos \in reached
                           THEN transfer_orb(g, pos, exploding_player)
                           ELSE g[pos]],
         explosion_queue |-> q \o SelectSeq(adjacent_cells, queued),
         animations |-> a + 1 + Cardinality(reached)]

\* Game.handle_single_explosion on the grid g, the queue q (already popped)
\* and the number a of animations: the three after the call
handle_single_explosion(g, q, a, row, col) ==
    LET cell == g[<<row, col>>]
        exploding_player == cell.owner
        adjacent_cells == explode_returns(cell)
        targets == {adjacent_cells[i] : i \in 1 .. 4}
        reached == {t \in targets : in_grid(t[1], t[2])}
        queued(t) == chain_queued(g, q, t, exploding_player)
    IN  IF Len(cell.orbs) >= cell.critical_mass
        THEN [grid |-> [pos \in Positions |->
                           IF pos = <<row, col>> THEN explode(cell)
                           ELSE IF pos \in reached
                                THEN transfer_orb(g, pos, exploding_player)
                                ELSE g[pos]],
              explosion_queue |-> q \o SelectSeq(adjacent_cells, queued),
              animations |-> a + 1 + Cardinality(reached)]
        ELSE [grid |-> g, explosion_queue |-> q, animations |-> a]

players_with_orbs_skipping_first(g, n) ==
    {player \in 1 .. (n - 1) :
        \E pos \in Positions : g[pos].orbs # <<>> /\ g[pos].owner = player}

\* players_with_orbs of check_win_condition
players_with_orbs(g, n) ==
    {player \in Players(n) :
        \E pos \in Positions : g[pos].orbs # <<>> /\ g[pos].owner = player}

all_players_played_once_any_has(played, n) == Cardinality(played) >= 1

all_players_played_off_by_one(played, n) == Cardinality(played) > n

all_players_played_ungated(played, n) == TRUE

all_players_played_one_short(played, n) == Cardinality(played) = n - 1

\* all_players_played / all_played of check_win_condition
all_players_played(played, n) == Cardinality(played) = n

RECURSIVE sum_orbs(_, _)
sum_orbs(g, S) ==
    IF S = {} THEN 0
    ELSE LET pos == CHOOSE x \in S : TRUE
         IN  Len(g[pos].orbs) + sum_orbs(g, S \ {pos})

\* total_orbs of check_win_condition
total_orbs(g) == sum_orbs(g, Positions)

elimination_winner_naming_mover(g, played, n) ==
    IF Cardinality(players_with_orbs(g, n)) = 1
       /\ all_players_played(played, n)
       /\ total_orbs(g) > 0
    THEN current_player
    ELSE None

\* the elimination branch of check_win_condition (None: branch not taken)
elimination_winner(g, played, n) ==
    IF Cardinality(players_with_orbs(g, n)) = 1
       /\ all_players_played(played, n)
       /\ total_orbs(g) > 0
    THEN CHOOSE player \in players_with_orbs(g, n) : TRUE
    ELSE None

\* the domination loop of check_win_condition (None: no player returned)
domination_winner(g, played, n) ==
    LET controls(player) ==
            /\ \A pos \in Positions :
                   g[pos].orbs # <<>> => g[pos].owner = player
            /\ \E pos \in Positions : g[pos].orbs # <<>>
            /\ all_players_played(played, n)
        found == {player \in Players(n) : controls(player)}
    IN  IF found = {} THEN None
        ELSE CHOOSE player \in found : \A other \in found : player <= other

\* Game.check_win_condition, on the fields it reads
check_win_condition(g, started, played, n) ==
    IF ~started THEN None
    ELSE IF elimination_winner(g, played, n) # None
         THEN elimination_winner(g, played, n)
         ELSE domination_winner(g, played, n)

(* ---------------------------- construction ---------------------------- *)

NoOperation == [op |-> "init", ret |-> FALSE, checked |-> FALSE]

\* Game.__init__(n) followed by the entry into Game.run
Constructed(n) ==
    [num_players |-> n,
     grid |-> [pos \in Positions |-> Cell(pos[1], pos[2])],
     current_player |-> 0,
     move_count |-> 0,
     animations |-> 0,
     is_animating |-> FALSE,
     explosion_queue |-> <<>>,
     processing_explosions |-> FALSE,
     game_should_reset |-> FALSE,
     game_should_close |-> FALSE,
     post_explosion_winner |-> None,
     game_started |-> FALSE,
     players_who_played |-> {},
     running |-> TRUE,
     winner |-> None]

StartsAs(n) ==
    LET game == Constructed(n)
    IN  /\ num_players = game.num_players
        /\ grid = game.grid
        /\ current_player = game.current_player
        /\ move_count = game.move_count
        /\ animations = game.animations
        /\ is_animating = game.is_animating
        /\ explosion_queue = game.explosion_queue
        /\ processing_explosions = game.processing_explosions
        /\ game_should_reset = game.game_should_reset
        /\ game_should_close = game.game_should_close
        /\ post_explosion_winner = game.post_explosion_winner
        /\ game_started = game.game_started
        /\ players_who_played = game.players_who_played
        /\ running = game.running
        /\ winner = game.winner
        /\ pc = "run"
        /\ result = "none"
        /\ last = NoOperation

\* Menu.run returns 2, 3 or 4; run_game.main constructs the Game
Init == \E n \in MIN_PLAYERS .. MAX_PLAYERS : StartsAs(n)

(* ----------------------------- handle_click ---------------------------- *)

click_blocked_never == FALSE

click_blocked_by_animation_only == is_animating

\* the guard at the top of handle_click
click_blocked == is_animating \/ processing_explosions

\* the ownership test of handle_click
legal_target(cell) == cell.orbs = <<>> \/ cell.orbs[1] = current_player

\* whether handle_click reaches its "return True"
click_accepted(grid_y, grid_x) ==
    /\ ~click_blocked
    /\ in_grid(grid_y, grid_x)
    /\ legal_target(grid[<<grid_y, grid_x>>])

start_explosion_chain_queueing_twice(row, col) ==
    /\ processing_explosions' = TRUE
    /\ explosion_queue' = << <<row, col>>, <<row, col>> >>

start_explosion_chain_unflagged(row, col) ==
    /\ processing_explosions' = processing_explosions
    /\ explosion_queue' = << <<row, col>> >>

\* Game.start_explosion_chain
start_explosion_chain(row, col) ==
    /\ processing_explosions' = TRUE
    /\ explosion_queue' = << <<row, col>> >>

switch_player_skipping_one(player, n) == (player + 2) % n

switch_player_unless_exploding(player, n) ==
    IF processing_explosions' THEN player ELSE (player + 1) % n

\* the player switch at the end of an accepted move
switch_player(player, n) == (player + 1) % n

accepted_move_replacing_players(grid_y, grid_x) ==
    LET cell == add_orb(grid[<<grid_y, grid_x>>], current_player)
    IN  /\ game_started' = TRUE
        /\ players_who_played' = {current_player}
        /\ move_count' = move_count + 1
        /\ grid' = [grid EXCEPT ![<<grid_y, grid_x>>] = cell]
        /\ IF add_orb_returns(cell)
           THEN start_explosion_chain(grid_y, grid_x)
           ELSE UNCHANGED <<processing_explosions, explosion_queue>>
        /\ current_player' = switch_player(current_player, num_players)

\* handle_click from the ownership test to "return True"
accepted_move(grid_y, grid_x) ==
    LET cell == add_orb(grid[<<grid_y, grid_x>>], current_player)
    IN  /\ game_started' = TRUE
        /\ players_who_played' = players_who_played \cup {current_player}
        /\ move_count' = move_count + 1
        /\ grid' = [grid EXCEPT ![<<grid_y, grid_x>>] = cell]
        /\ IF add_orb_returns(cell)
           THEN start_explosion_chain(grid_y, grid_x)
           ELSE UNCHANGED <<processing_explosions, explosion_queue>>
        /\ current_player' = switch_player(current_player, num_players)

click_rejected_switching ==
    /\ current_player' = (current_player + 1) % num_players
    /\ UNCHANGED <<grid, move_count, game_started, players_who_played,
                   explosion_queue, processing_explosions>>

\* the paths of handle_click that end in "return False"
click_rejected == UNCHANGED core

\* Game.handle_click(pos), pos in screen coordinates
handle_click(pos) ==
    LET grid_x == (pos[1] - grid_offset_x) \div CELL_SIZE
        grid_y == (pos[2] - grid_offset_y) \div CELL_SIZE
    IN  IF click_accepted(grid_y, grid_x)
        THEN /\ accepted_move(grid_y, grid_x)
             /\ last' = [op |-> "click", ret |-> TRUE, checked |-> TRUE]
        ELSE /\ click_rejected
             /\ last' = [op |-> "click", ret |-> FALSE, checked |-> TRUE]

(* ------------------------------- Game.run ------------------------------ *)

\* the cells that clicks land on, nearest the corner (0, 0) first
ClickOrder ==
    << <<0, 0>>, <<0, 1>>, <<1, 0>>, <<1, 1>>, <<0, 2>>, <<2, 0>>,
       <<1, 2>>, <<2, 1>>, <<2, 2>> >>

\* screen positions (x, y) the clicks are drawn from: the first and the last
\* pixel of each click cell, one pixel left of and above the grid, and the
\* first pixel right of the grid
ClickPositions ==
    {<<grid_offset_x + ClickOrder[i][2] * CELL_SIZE + d,
       grid_offset_y + ClickOrder[i][1] * CELL_SIZE + d>> :
         i \in 1 .. Min(ClickCells, Len(ClickOrder)), d \in {0, CELL_SIZE - 1}}
    \cup {<<grid_offset_x - 1, grid_offset_y - 1>>,
          <<grid_offset_x + GRID_SIZE * CELL_SIZE, grid_offset_y>>}

\* a MOUSEBUTTONDOWN event outside the two UI buttons
ClickEvent(pos) ==
    /\ pc = "run"
    /\ handle_click(pos)
    /\ LET res == check_win_condition(grid', game_started',
                                      players_who_played', num_players)
       IN  IF res # None
           THEN winner' = res /\ running' = FALSE
           ELSE UNCHANGED <<winner, running>>
    /\ UNCHANGED <<num_players, animations, is_animating, game_should_reset,
                   game_should_close, post_explosion_winner, pc, result>>

ResetEvent_leaving_at_once ==
    /\ pc = "run"
    /\ game_should_reset' = TRUE
    /\ running' = FALSE
    /\ pc' = "returned"
    /\ result' = "reset"
    /\ last' = [op |-> "reset", ret |-> FALSE, checked |-> FALSE]
    /\ UNCHANGED <<core, num_players, animations, is_animating,
                   game_should_close, post_explosion_winner, winner>>

\* a click on the reset button
ResetEvent ==
    /\ pc = "run"
    /\ game_should_reset' = TRUE
    /\ running' = FALSE
    /\ last' = [op |-> "reset", ret |-> FALSE, checked |-> FALSE]
    /\ UNCHANGED <<core, num_players, animations, is_animating,
                   game_should_close, post_explosion_winner, winner, pc,
                   result>>

\* a click on the close button
CloseEvent ==
    /\ pc = "run"
    /\ game_should_close' = TRUE
    /\ running' = FALSE
    /\ last' = [op |-> "close", ret |-> FALSE, checked |-> FALSE]
    /\ UNCHANGED <<core, num_players, animations, is_animating,
                   game_should_reset, post_explosion_winner, winner, pc,
                   result>>

\* pygame.QUIT: run returns None at once
QuitEvent ==
    /\ pc = "run"
    /\ pc' = "returned"
    /\ result' = "quit"
    /\ last' = [op |-> "quit", ret |-> FALSE, checked |-> FALSE]
    /\ UNCHANGED <<core, num_players, animations, is_animating,
                   game_should_reset, game_should_close,
                   post_explosion_winner, running, winner>>

\* what run returns once the loop is left
returned_value(reset, close) ==
    IF reset THEN "reset" ELSE IF close THEN "close" ELSE "winner"

pop_two(q) ==
    [position |-> Head(q),
     explosion_queue |-> IF Len(q) > 1 THEN Tail(Tail(q)) ELSE Tail(q)]

pop_second(q) ==
    LET i == Min(2, Len(q))
    IN  [position |-> q[i],
         explosion_queue |-> SubSeq(q, 1, i - 1) \o SubSeq(q, i + 1, Len(q))]

pop_last(q) ==
    [position |-> q[Len(q)], explosion_queue |-> SubSeq(q, 1, Len(q) - 1)]

\* self.explosion_queue.pop(0): the popped position and the queue left
pop(q) == [position |-> Head(q), explosion_queue |-> Tail(q)]

check_post_explosion_win_naming_mover(latched) ==
    LET res == check_win_condition(grid, game_started, players_who_played,
                                   num_players)
    IN  IF res # None THEN current_player ELSE latched

\* Game.check_post_explosion_win: post_explosion_winner after the call
check_post_explosion_win(latched) ==
    LET res == check_win_condition(grid, game_started, players_who_played,
                                   num_players)
    IN  IF res # None THEN res ELSE latched

\* Game.update_explosions: the state after it, from the animations left
\* over by update_animations
update_explosions(left) ==
    IF explosion_queue # <<>>
    THEN LET popped == pop(explosion_queue)
             current == popped.position
             after == handle_single_explosion(
                          grid, popped.explosion_queue, left,
                          current[1], current[2])
         IN  [grid |-> after.grid,
              explosion_queue |-> after.explosion_queue,
              animations |-> after.animations,
              processing_explosions |-> processing_explosions,
              post_explosion_winner |-> post_explosion_winner,
              checked |-> FALSE]
    ELSE IF processing_explosions
    THEN [grid |-> grid,
          explosion_queue |-> explosion_queue,
          animations |-> left,
          processing_explosions |-> FALSE,
          post_explosion_winner |->
              check_post_explosion_win(post_explosion_winner),
          checked |-> TRUE]
    ELSE [grid |-> grid,
          explosion_queue |-> explosion_queue,
          animations |-> left,
          processing_explosions |-> processing_explosions,
          post_explosion_winner |-> post_explosion_winner,
          checked |-> FALSE]

update_animations_never_animating(left) ==
    LET after == update_explosions(left)
    IN  [is_animating |-> FALSE,
         grid |-> after.grid,
         explosion_queue |-> after.explosion_queue,
         animations |-> after.animations,
         processing_explosions |-> after.processing_explosions,
         post_explosion_winner |-> after.post_explosion_winner,
         checked |-> after.checked]

update_animations_flag_after(left) ==
    LET after == update_explosions(left)
    IN  [is_animating |-> after.animations > 0,
         grid |-> after.grid,
         explosion_queue |-> after.explosion_queue,
         animations |-> after.animations,
         processing_explosions |-> after.processing_explosions,
         post_explosion_winner |-> after.post_explosion_winner,
         checked |-> after.checked]

\* Game.update_animations: the state after it, when left of the animations
\* are not finished; is_animating is assigned before any animation is
\* removed or appended
update_animations(left) ==
    LET after == update_explosions(left)
    IN  [is_animating |-> animations > 0,
         grid |-> after.grid,
         explosion_queue |-> after.explosion_queue,
         animations |-> after.animations,
         processing_explosions |-> after.processing_explosions,
         post_explosion_winner |-> after.post_explosion_winner,
         checked |-> after.checked]

\* the rest of one loop iteration after the events: update_animations (of
\* the animations, any number finish), the post-explosion winner test and
\* the loop condition
Tick ==
    /\ pc = "run"
    /\ \E left \in 0 .. animations :
        LET after == update_animations(left)
        IN  /\ is_animating' = after.is_animating
            /\ animations' = Min(after.animations, MaxAnimations)
            /\ grid' = after.grid
            /\ explosion_queue' = after.explosion_queue
            /\ processing_explosions' = after.processing_explosions
            /\ post_explosion_winner' = after.post_explosion_winner
            /\ last' = [op |-> "tick", ret |-> FALSE,
                        checked |-> after.checked]
    /\ IF post_explosion_winner' # None
       THEN winner' = post_explosion_winner' /\ running' = FALSE
       ELSE UNCHANGED <<winner, running>>
    /\ IF running'
       THEN UNCHANGED <<pc, result>>
       ELSE /\ pc' = "returned"
            /\ result' = returned_value(game_should_reset, game_should_close)
    /\ UNCHANGED <<num_players, current_player, move_count, game_started,
                   players_who_played, game_should_reset, game_should_close>>

(* ------------------------------ run_game.py ---------------------------- *)

NewGame(n) ==
    LET game == Constructed(n)
    IN  /\ num_players' = game.num_players
        /\ grid' = game.grid
        /\ current_player' = game.current_player
        /\ move_count' = game.move_count
        /\ animations' = game.animations
        /\ is_animating' = game.is_animating
        /\ explosion_queue' = game.explosion_queue
        /\ processing_explosions' = game.processing_explosions
        /\ game_should_reset' = game.game_should_reset
        /\ game_should_close' = game.game_should_close
        /\ post_explosion_winner' = game.post_explosion_winner
        /\ game_started' = game.game_started
        /\ players_who_played' = game.players_who_played
        /\ running' = game.running
        /\ winner' = game.winner
        /\ pc' = "run"
        /\ result' = "none"
        /\ last' = NoOperation

\* "reset", or "play_again" on the game-over screen: a new Game with the
\* same number of players
PlayAgain ==
    /\ pc = "returned"
    /\ result \in {"reset", "winner"}
    /\ NewGame(num_players)

\* "close", or "menu" on the game-over screen: the menu chooses again
BackToMenu ==
    /\ pc = "returned"
    /\ result \in {"close", "winner"}
    /\ \E n \in MIN_PLAYERS .. MAX_PLAYERS : NewGame(n)

Next ==
    \/ \E pos \in ClickPositions : move_count < MaxMoves /\ ClickEvent(pos)
    \/ ResetEvent
    \/ CloseEvent
    \/ QuitEvent
    \/ Tick
    \/ PlayAgain
    \/ BackToMenu

Spec == Init /\ [][Next]_vars

(* ------------------------------ reset_game ----------------------------- *)

\* the Game object: its fields in the current state
Game ==
    [num_players |-> num_players,
     grid |-> grid,
     current_player |-> current_player,
     move_count |-> move_count,
     animations |-> animations,
     is_animating |-> is_animating,
     explosion_queue |-> explosion_queue,
     processing_explosions |-> processing_explosions,
     game_should_reset |-> game_should_reset,
     game_should_close |-> game_should_close,
     post_explosion_winner |-> post_explosion_winner,
     game_started |-> game_started,
     players_who_played |-> players_who_played]

reset_game_keeping_players(game) ==
    [game EXCEPT !.current_player = 0,
                 !.move_count = 0,
                 !.grid = [pos \in Positions |-> Cell(pos[1], pos[2])],
                 !.animations = 0,
                 !.explosion_queue = <<>>,
                 !.processing_explosions = FALSE,
                 !.is_animating = FALSE,
                 !.game_should_reset = FALSE,
                 !.game_should_close = FALSE,
                 !.post_explosion_winner = None,
                 !.game_started = FALSE]

\* Game.reset_game: the object after the call
reset_game(game) ==
    [game EXCEPT !.current_player = 0,
                 !.move_count = 0,
                 !.grid = [pos \in Positions |-> Cell(pos[1], pos[2])],
                 !.animations = 0,
                 !.explosion_queue = <<>>,
                 !.processing_explosions = FALSE,
                 !.is_animating = FALSE,
                 !.game_should_reset = FALSE,
                 !.game_should_close = FALSE,
                 !.post_explosion_winner = None,
                 !.game_started = FALSE,
                 !.players_who_played = {}]

(* ------------------------- a scripted long game ------------------------ *)

\* the cells (row, col) two players click in turn, each click made once the
\* previous chain and its animations are over
Script ==
    << <<4, 4>>, <<0, 0>>, <<5, 4>>, <<4, 3>>, <<5, 0>>, <<4, 5>>, <<1, 1>>,
       <<3, 4>>, <<2, 0>>, <<0, 3>>, <<1, 2>>, <<3, 1>>, <<2, 4>>, <<2, 2>>,
       <<5, 5>>, <<1, 4>>, <<2, 4>>, <<1, 3>>, <<4, 4>>, <<4, 2>>, <<5, 1>>,
       <<1, 3>>, <<0, 1>>, <<4, 2>>, <<1, 2>>, <<1, 0>>, <<3, 0>>, <<3, 4>>,
       <<4, 1>>, <<4, 2>>, <<2, 0>>, <<1, 4>>, <<4, 0>>, <<0, 5>>, <<1, 5>>,
       <<0, 2>>, <<2, 3>>, <<4, 3>>, <<1, 5>>, <<5, 3>>, <<3, 3>>, <<3, 5>>,
       <<2, 5>>, <<4, 3>>, <<3, 2>>, <<4, 5>>, <<4, 0>>, <<1, 4>>, <<3, 0>>,
       <<1, 0>>, <<5, 2>>, <<2, 2>>, <<0, 4>>, <<1, 3>>, <<2, 4>>, <<3, 5>>,
       <<1, 1>>, <<0, 3>>, <<5, 2>>, <<2, 2>>, <<1, 2>>, <<3, 4>>, <<3, 3>>,
       <<0, 2>>, <<4, 1>>, <<5, 3>>, <<0, 1>>, <<2, 1>>, <<1, 1>>, <<2, 1>>,
       <<5, 1>>, <<3, 1>>, <<3, 3>>, <<2, 1>>, <<5, 4>>, <<3, 1>>, <<5, 1>> >>

ScriptClick ==
    /\ move_count < Len(Script)
    /\ ~click_blocked
    /\ LET cell == Script[move_count + 1]
       IN  ClickEvent(<<grid_offset_x + cell[2] * CELL_SIZE,
                        grid_offset_y + cell[1] * CELL_SIZE>>)

ScriptNext == ScriptClick \/ Tick

\* the frame loop keeps running: a tick always follows
SpecScript == StartsAs(MIN_PLAYERS) /\ [][ScriptNext]_vars /\ WF_vars(Tick)

(* ---------------------- a scripted game of two corners ----------------- *)

\* the cells (row, col) two players click in turn: player 0 fills the corner
\* at (0, 0), player 1 the corner at (5, 5), and each sets its corner off
CornerScript ==
    << <<0, 1>>, <<5, 4>>, <<0, 1>>, <<5, 4>>, <<1, 0>>, <<4, 5>>, <<1, 0>>,
       <<4, 5>>, <<1, 1>>, <<5, 5>>, <<1, 1>>, <<5, 5>>, <<1, 1>>, <<2, 1>>,
       <<0, 0>>, <<1, 2>>, <<0, 0>> >>

\* the next click of the script, made at any time: while a chain or an
\* animation is in progress handle_click rejects it and it is made again
CornerClick ==
    /\ move_count < Len(CornerScript)
    /\ LET cell == CornerScript[move_count + 1]
       IN  ClickEvent(<<grid_offset_x + cell[2] * CELL_SIZE,
                        grid_offset_y + cell[1] * CELL_SIZE>>)

CornerNext ==
    \/ CornerClick
    \/ ResetEvent
    \/ CloseEvent
    \/ QuitEvent
    \/ Tick

SpecCorners == StartsAs(MIN_PLAYERS) /\ [][CornerNext]_vars

(* ------------- a scripted game with a cell filled while queued --------- *)

\* the cells (row, col) two players click in turn: player 0 around the
\* corner (0, 0), player 1 around (4, 4)
SurplusScript ==
    << <<0, 0>>, <<4, 4>>, <<0, 1>>, <<4, 4>>, <<0, 1>>, <<4, 4>>, <<1, 0>>,
       <<4, 3>>, <<1, 0>>, <<4, 3>>, <<1, 1>>, <<4, 3>>, <<1, 1>>, <<3, 4>>,
       <<1, 1>>, <<3, 4>>, <<1, 1>> >>

\* the next click of the script, made at any time: while a chain or an
\* animation is in progress handle_click rejects it and it is made again
SurplusClick ==
    /\ move_count < Len(SurplusScript)
    /\ LET cell == SurplusScript[move_count + 1]
       IN  ClickEvent(<<grid_offset_x + cell[2] * CELL_SIZE,
                        grid_offset_y + cell[1] * CELL_SIZE>>)

SurplusNext ==
    \/ SurplusClick
    \/ ResetEvent
    \/ CloseEvent
    \/ QuitEvent
    \/ Tick

SpecSurplus == StartsAs(MIN_PLAYERS) /\ [][SurplusNext]_vars

(* --------------- a scripted game that fills the board ----------------- *)

\* the cells (row, col) three players click in turn
StallScript ==
    << <<1, 0>>, <<2, 2>>, <<1, 2>>, <<4, 1>>, <<2, 0>>, <<3, 1>>, <<4, 0>>,
       <<3, 3>>, <<1, 5>>, <<2, 1>>, <<3, 5>>, <<1, 2>>, <<0, 5>>, <<2, 5>>,
       <<4, 5>>, <<4, 3>>, <<5, 2>>, <<3, 2>>, <<0, 0>>, <<5, 4>>, <<0, 3>>,
       <<4, 2>>, <<5, 3>>, <<3, 2>>, <<1, 4>>, <<2, 2>>, <<1, 3>>, <<1, 4>>,
       <<5, 4>>, <<1, 3>>, <<4, 1>>, <<0, 2>>, <<1, 3>>, <<4, 1>>, <<2, 5>>,
       <<5, 1>>, <<4, 3>>, <<5, 0>>, <<3, 1>>, <<4, 2>>, <<0, 4>>, <<1, 1>>,
       <<5, 5>>, <<3, 4>>, <<2, 4>>, <<2, 3>>, <<3, 3>>, <<0, 1>>, <<3, 0>>,
       <<3, 5>>, <<4, 4>>, <<3, 0>>, <<5, 2>>, <<1, 5>>, <<1, 0>>, <<3, 4>>,
       <<3, 2>>, <<4, 0>>, <<0, 4>>, <<0, 3>>, <<1, 4>>, <<5, 3>>, <<0, 1>>,
       <<2, 3>>, <<0, 2>>, <<4, 5>>, <<2, 3>>, <<3, 4>>, <<3, 1>>, <<4, 3>>,
       <<2, 2>>, <<1, 2>>, <<2, 1>>, <<3, 4>>, <<1, 1>>, <<2, 1>>, <<2, 0>>,
       <<5, 1>>, <<4, 2>>, <<2, 5>>, <<1, 1>>, <<4, 3>>, <<1, 5>> >>

\* the next click of the script, made at any time: while a chain or an
\* animation is in progress handle_click rejects it and it is made again
StallClick ==
    /\ move_count < Len(StallScript)
    /\ LET cell == StallScript[move_count + 1]
       IN  ClickEvent(<<grid_offset_x + cell[2] * CELL_SIZE,
                        grid_offset_y + cell[1] * CELL_SIZE>>)

StallNext ==
    \/ StallClick
    \/ ResetEvent
    \/ CloseEvent
    \/ QuitEvent
    \/ Tick

SpecStall == StartsAs(3) /\ [][StallNext]_vars

(* ------------------- check_win_condition on given boards --------------- *)

\* what a cell of critical mass m can hold between moves in a game of n
\* players: nothing, or 1..m-1 orbs of one player
CellContents(m, n) ==
    {[orbs |-> <<>>, owner |-> None]}
    \cup {[orbs |-> [i \in 1 .. k |-> player], owner |-> player] :
              k \in 1 .. (m - 1), player \in Players(n)}

\* boards whose cells each hold one orb of player 0, except the first
\* VariedCells cells of ClickOrder, which hold any content
Boards(n) ==
    LET varied == {ClickOrder[i] : i \in 1 .. Min(VariedCells, Len(ClickOrder))}
        choices == [varied -> CellContents(4, n)]
    IN  {[pos \in Positions |->
            IF pos \in varied
            THEN [Cell(pos[1], pos[2]) EXCEPT !.orbs = c[pos].orbs,
                                              !.owner = c[pos].owner]
            ELSE [Cell(pos[1], pos[2]) EXCEPT !.orbs = <<0>>, !.owner = 0]] :
         c \in {d \in choices :
                   \A pos \in varied :
                       Len(d[pos].orbs) < calculate_critical_mass(pos[1], pos[2])}}

\* boards whose cells are empty, except the first VariedCells cells of
\* ClickOrder, which hold any content
SparseBoards(n) ==
    LET varied == {ClickOrder[i] : i \in 1 .. Min(VariedCells, Len(ClickOrder))}
        choices == [varied -> CellContents(4, n)]
    IN  {[pos \in Positions |->
            IF pos \in varied
            THEN [Cell(pos[1], pos[2]) EXCEPT !.orbs = c[pos].orbs,
                                              !.owner = c[pos].owner]
            ELSE Cell(pos[1], pos[2])] :
         c \in {d \in choices :
                   \A pos \in varied :
                       Len(d[pos].orbs) < calculate_critical_mass(pos[1], pos[2])}}

InitWin ==
    \E n \in MIN_PLAYERS .. MAX_PLAYERS :
    \E board \in Boards(n) :
    \E played \in SUBSET Players(n) :
        /\ \A pos \in Positions : board[pos].owner \in played \cup {None}
        /\ num_players = n
        /\ grid = board
        /\ players_who_played = played
        /\ game_started = TRUE
        /\ current_player = 0
        /\ move_count = 0
        /\ animations = 0
        /\ is_animating = FALSE
        /\ explosion_queue = <<>>
        /\ processing_explosions = FALSE
        /\ game_should_reset = FALSE
        /\ game_should_close = FALSE
        /\ post_explosion_winner = None
        /\ running = TRUE
        /\ winner = None
        /\ pc = "run"
        /\ result = "none"
        /\ last = NoOperation

\* result = self.check_win_condition(); winner = result
EvaluateWin ==
    /\ last.op = "init"
    /\ winner' = check_win_condition(grid, game_started, players_who_played,
                                     num_players)
    /\ last' = [op |-> "check", ret |-> FALSE, checked |-> TRUE]
    /\ UNCHANGED <<core, num_players, animations, is_animating,
                   game_should_reset, game_should_close,
                   post_explosion_winner, running, pc, result>>

SpecWin == InitWin /\ [][EvaluateWin]_vars

(* ------------------ update_explosions on given queues ------------------ *)

\* queues of one or two different positions among the first VariedCells
\* cells of ClickOrder
GivenQueues ==
    LET varied == {ClickOrder[i] : i \in 1 .. Min(VariedCells, Len(ClickOrder))}
    IN  {<<a>> : a \in varied}
        \cup {q \in {<<a, b>> : a \in varied, b \in varied} : q[1] # q[2]}

\* a game of MIN_PLAYERS players in the middle of a chain, on a board whose
\* cells are all below critical mass, with a given queue
InitQueued ==
    \E board \in SparseBoards(MIN_PLAYERS) :
    \E q \in GivenQueues :
        /\ num_players = MIN_PLAYERS
        /\ grid = board
        /\ players_who_played = Players(MIN_PLAYERS)
        /\ game_started = TRUE
        /\ current_player = 0
        /\ move_count = 0
        /\ animations = 0
        /\ is_animating = FALSE
        /\ explosion_queue = q
        /\ processing_explosions = TRUE
        /\ game_should_reset = FALSE
        /\ game_should_close = FALSE
        /\ post_explosion_winner = None
        /\ running = TRUE
        /\ winner = None
        /\ pc = "run"
        /\ result = "none"
        /\ last = NoOperation

SpecQueued == InitQueued /\ [][Tick]_vars

(* -------------------------------- claims ------------------------------- *)

\* C1: capture - add_orb(p) on a non-empty cell owned by another player
\* leaves every orb and the owner equal to p and holds one orb more than
\* before.
C1_CaptureAddsOneOrb ==
    \A pos \in Positions : \A p \in Players(num_players) :
        (grid[pos].orbs # <<>> /\ grid[pos].owner # p)
        => LET after == add_orb(grid[pos], p)
           IN  /\ \A i \in 1 .. Len(after.orbs) : after.orbs[i] = p
               /\ after.owner = p
               /\ Len(after.orbs) = Len(grid[pos].orbs) + 1

\* C2: chain termination - once a chain is in progress, ticks alone bring
\* the engine back to Idle (queue empty, processing flag false).
C2_ChainTerminates ==
    processing_explosions
        ~> (explosion_queue = <<>> /\ ~processing_explosions)

\* C3: turn cycling - an accepted move sets current_player to
\* (current_player + 1) mod num_players, exploding or not, and no other
\* step of a game (rejected click, tick, reset, close, quit) changes it.
C3_TurnCycling ==
    [][IF last'.op = "click" /\ last'.ret
       THEN current_player' = (current_player + 1) % num_players
       ELSE last'.op # "init" => current_player' = current_player]_vars

\* C3 witness: an accepted move that started a chain has wrapped the turn
\* round to player 0.
C3_Witness ==
    /\ last.op = "click" /\ last.ret
    /\ explosion_queue # <<>>
    /\ current_player = 0

\* C4: win gating - check_win_condition returns no winner while game_started
\* is false or fewer than num_players players have moved.
C4_WinGating ==
    (~game_started \/ Cardinality(players_who_played) < num_players)
    => check_win_condition(grid, game_started, players_who_played,
                           num_players) = None

\* C4 witness: the game has started, not everyone has moved, and exactly one
\* player holds orbs.
C4_Witness ==
    /\ game_started
    /\ Cardinality(players_who_played) < num_players
    /\ Cardinality({grid[pos].owner : pos \in Positions} \ {None}) = 1

\* C5: a click is accepted exactly when neither is_animating nor
\* processing_explosions is set, the position is inside the grid and the
\* cell is empty or owned by current_player; no click is accepted while a
\* chain is in progress.
C5_ClickAcceptedIff ==
    [][\A pos \in ClickPositions :
          (last'.op = "click" /\ handle_click(pos)) =>
              LET col == (pos[1] - grid_offset_x) \div CELL_SIZE
                  row == (pos[2] - grid_offset_y) \div CELL_SIZE
                  inside == row \in Rows /\ col \in Rows
              IN  /\ last'.ret <=>
                        /\ ~is_animating
                        /\ ~processing_explosions
                        /\ inside
                        /\ \/ grid[<<row, col>>].orbs = <<>>
                           \/ grid[<<row, col>>].owner = current_player
                  /\ (processing_explosions \/ explosion_queue # <<>>)
                         => ~last'.ret]_vars

\* C5 witness: a click has been rejected while a chain was in progress.
C5_Witness ==
    /\ last.op = "click" /\ ~last.ret
    /\ explosion_queue # <<>>

\* C6: a rejected click leaves the grid, current_player, move_count,
\* game_started, players_who_played, the queue and the processing flag as
\* they were.
C6_RejectedClickChangesNothing ==
    [][(last'.op = "click" /\ ~last'.ret) =>
          /\ grid' = grid
          /\ current_player' = current_player
          /\ move_count' = move_count
          /\ game_started' = game_started
          /\ players_who_played' = players_who_played
          /\ explosion_queue' = explosion_queue
          /\ processing_explosions' = processing_explosions]_vars

\* C6 witness: a click has been rejected in an idle engine of a started game.
C6_Witness ==
    /\ last.op = "click" /\ ~last.ret
    /\ ~is_animating /\ ~processing_explosions
    /\ game_started

\* C7 as stated: the queue is non-empty exactly when processing_explosions
\* is true.
C7_QueueIffProcessing ==
    (explosion_queue # <<>>) <=> processing_explosions

\* C7 as amended: the queue is non-empty only while processing_explosions is
\* true; the tick that pops the last position leaves the flag set, and the
\* flag is cleared by exactly the ticks that find the queue already empty,
\* which pop nothing and evaluate the win condition.
C7_QueueImpliesProcessing ==
    [][/\ explosion_queue' # <<>> => processing_explosions'
       /\ (processing_explosions /\ ~processing_explosions'
           /\ last'.op # "init")
          => /\ explosion_queue = <<>>
             /\ explosion_queue' = <<>>
             /\ last'.op = "tick"
             /\ last'.checked
       /\ (last'.op = "tick" /\ explosion_queue = <<>>
           /\ processing_explosions)
          => ~processing_explosions' /\ last'.checked]_vars

\* C7 witness: a tick has popped the last position and the flag is still set.
C7_Witness ==
    /\ last.op = "tick"
    /\ explosion_queue = <<>>
    /\ processing_explosions

\* C8: the win condition is never evaluated while a chain is in progress
\* (processing flag true or queue non-empty).
C8_NoWinCheckDuringChain ==
    last.checked => (~processing_explosions /\ explosion_queue = <<>>)

\* C9: elimination - when the game has started, exactly one player p owns a
\* non-empty cell, every player has moved and the board holds an orb,
\* check_win_condition returns p.
C9_EliminationWin ==
    \A p \in Players(num_players) :
        (/\ game_started
         /\ {grid[pos].owner : pos \in {q \in Positions : grid[q].orbs # <<>>}}
                = {p}
         /\ players_who_played = Players(num_players)
         /\ \E pos \in Positions : Len(grid[pos].orbs) > 0)
        => check_win_condition(grid, game_started, players_who_played,
                               num_players) = p

\* C9 witness: a chain has left a single player holding orbs after everyone
\* moved.
C9_Witness ==
    /\ game_started
    /\ players_who_played = Players(num_players)
    /\ Cardinality({grid[pos].owner : pos \in Positions} \ {None}) = 1

\* C10: domination scenario - when every cell holds at least one orb owned
\* by player 0 and every player has moved, check_win_condition returns 0.
C10_DominationScenario ==
    (/\ \A pos \in Positions :
            grid[pos].orbs # <<>> /\ grid[pos].owner = 0
     /\ players_who_played = Players(num_players))
    => check_win_condition(grid, game_started, players_who_played,
                           num_players) = 0

\* C10 witness: the win condition has been evaluated on such a board.
C10_Witness ==
    /\ \A pos \in Positions :
           grid[pos].orbs # <<>> /\ grid[pos].owner = 0
    /\ players_who_played = Players(num_players)
    /\ last.op = "check"
    /\ winner = 0

\* the critical mass the rule gives position (row, col) of an n x n grid
C11_RuleOnGrid(n, row, col) ==
    LET corner == row \in {0, n - 1} /\ col \in {0, n - 1}
        edge == row \in {0, n - 1} \/ col \in {0, n - 1}
    IN  IF corner THEN 2 ELSE IF edge THEN 3 ELSE 4

\* C11 as stated: for every n >= 3 and every position of an n x n grid, the
\* cell created at that position has critical mass 2 at a corner, 3 on an
\* edge that is not a corner and 4 otherwise.
C11_CriticalMassAnyGrid ==
    \A n \in 3 .. GRID_SIZE : \A row \in 0 .. (n - 1) : \A col \in 0 .. (n - 1) :
        grid[<<row, col>>].critical_mass = C11_RuleOnGrid(n, row, col)

\* C11 as amended: on the GRID_SIZE x GRID_SIZE grid of the build every cell
\* keeps its position and has critical mass 2 at a corner, 3 on an edge that
\* is not a corner and 4 otherwise, in every state of every game.
C11_CriticalMassOnBuiltGrid ==
    \A pos \in Positions :
        /\ grid[pos].row = pos[1] /\ grid[pos].col = pos[2]
        /\ grid[pos].critical_mass
               = C11_RuleOnGrid(GRID_SIZE, pos[1], pos[2])

\* C11 witness: mid-chain, after a tick, an edge cell holds orbs.
C11_Witness ==
    /\ last.op = "tick"
    /\ processing_explosions
    /\ \E pos \in Positions :
           grid[pos].orbs # <<>> /\ grid[pos].critical_mass = 3

\* C12: cell ownership - in every reachable state every cell has owner null
\* exactly when its orb list is empty, and every orb of a non-empty cell
\* carries the cell's owner id.
C12_OwnerMatchesOrbs ==
    \A pos \in Positions :
        /\ grid[pos].owner = None <=> grid[pos].orbs = <<>>
        /\ \A i \in 1 .. Len(grid[pos].orbs) :
               grid[pos].orbs[i] = grid[pos].owner

\* C12 witness: a chain has exploded a cell and captured the cells of a
\* player who has moved, so that this player owns no cell any more.
C12_Witness ==
    /\ last.op = "tick"
    /\ \E pos \in Positions : grid[pos].orbs # <<>>
    /\ \E p \in players_who_played :
           \A pos \in Positions : grid[pos].owner # p

\* C13: explode() on any cell of any reachable board, whatever its position
\* and contents, leaves the cell with no orbs and no owner and returns
\* exactly (row+1, col), (row-1, col), (row, col+1), (row, col-1), in this
\* order and without clipping them to the grid.
C13_ExplodeClearsAndReturnsFour ==
    \A pos \in Positions :
        LET cell == grid[pos]
        IN  /\ explode(cell).orbs = <<>>
            /\ explode(cell).owner = None
            /\ explode(cell).row = pos[1] /\ explode(cell).col = pos[2]
            /\ explode_returns(cell)
                   = << <<pos[1] + 1, pos[2]>>, <<pos[1] - 1, pos[2]>>,
                        <<pos[1], pos[2] + 1>>, <<pos[1], pos[2] - 1>> >>

\* C13 witness: a tick has exploded the corner cell (0, 0), two of whose
\* returned coordinates lie outside the grid, and its two neighbours in the
\* grid hold the orbs.
C13_Witness ==
    /\ last.op = "tick"
    /\ processing_explosions
    /\ grid[<<0, 0>>].orbs = <<>>
    /\ grid[<<0, 1>>].orbs # <<>> /\ grid[<<1, 0>>].orbs # <<>>
    /\ grid[<<0, 1>>].owner = grid[<<1, 0>>].owner
    /\ explosion_queue = <<>>
    /\ move_count = 3

\* C14: end-to-end scenario with 2 players - player 0 clicks (0, 0), player 1
\* clicks another cell, player 0 clicks (0, 0) again.  The tick that pops
\* (0, 0) leaves it empty and ownerless, leaves (0, 1) and (1, 0) owned by
\* player 0 with exactly one orb more than before (also when player 1 had
\* played there), leaves the queue empty and current_player 1; the next tick
\* clears the processing flag.
C14_EndToEnd ==
    [][/\ (/\ num_players = 2 /\ move_count = 3
           /\ explosion_queue = << <<0, 0>> >>
           /\ last'.op = "tick")
          => /\ grid'[<<0, 0>>].orbs = <<>>
             /\ grid'[<<0, 0>>].owner = None
             /\ \A pos \in {<<0, 1>>, <<1, 0>>} :
                    /\ grid'[pos].owner = 0
                    /\ Len(grid'[pos].orbs) = Len(grid[pos].orbs) + 1
             /\ explosion_queue' = <<>>
             /\ current_player' = 1
       /\ (/\ num_players = 2 /\ move_count = 3
           /\ explosion_queue = <<>> /\ processing_explosions
           /\ last'.op = "tick")
          => ~processing_explosions']_vars

\* C15: every accepted move sets game_started, adds the moving player to
\* players_who_played, increases move_count by exactly one and appends
\* exactly one orb of the moving player to the clicked cell, every other
\* cell being unchanged at the moment of the click; a chain is started on
\* the clicked cell (queue = that one cell, flag set) exactly when the cell
\* has reached its critical mass, and otherwise queue and flag are untouched.
C15_AcceptedMove ==
    [][\A click \in ClickPositions :
          (last'.op = "click" /\ last'.ret /\ handle_click(click)) =>
              LET pos == <<(click[2] - grid_offset_y) \div CELL_SIZE,
                           (click[1] - grid_offset_x) \div CELL_SIZE>>
              IN  /\ game_started'
                  /\ players_who_played'
                         = players_who_played \cup {current_player}
                  /\ move_count' = move_count + 1
                  /\ grid'[pos].orbs = Append(grid[pos].orbs, current_player)
                  /\ grid'[pos].owner = current_player
                  /\ \A other \in Positions \ {pos} :
                         grid'[other] = grid[other]
                  /\ IF Len(grid'[pos].orbs) >= grid'[pos].critical_mass
                     THEN /\ explosion_queue' = <<pos>>
                          /\ processing_explosions'
                     ELSE /\ explosion_queue' = explosion_queue
                          /\ processing_explosions'
                                 = processing_explosions]_vars

\* C15 witness: an accepted move on a cell that already held an orb of the
\* mover has started a chain on it.
C15_Witness ==
    /\ last.op = "click" /\ last.ret
    /\ processing_explosions
    /\ Len(explosion_queue) = 1
    /\ Len(grid[explosion_queue[1]].orbs) >= 2
    /\ game_started
    /\ move_count >= 3

\* C16: add_orb(p) on a cell of a reachable board that is empty or already
\* owned by p appends exactly one orb of p, sets owner to p, changes nothing
\* else, and returns true exactly when the resulting orb count is at least
\* the cell's critical mass.
C16_AddOrbOnOwnOrEmpty ==
    \A pos \in Positions : \A p \in Players(num_players) :
        (grid[pos].orbs = <<>> \/ grid[pos].owner = p)
        => LET after == add_orb(grid[pos], p)
           IN  /\ after.orbs = Append(grid[pos].orbs, p)
               /\ after.owner = p
               /\ after.row = pos[1] /\ after.col = pos[2]
               /\ after.critical_mass = grid[pos].critical_mass
               /\ add_orb_returns(after)
                      <=> Len(grid[pos].orbs) + 1 >= grid[pos].critical_mass

\* C16 witness: after an accepted move the board holds an empty cell, a cell
\* one orb short of its critical mass (add_orb by its owner returns true)
\* and a cell of critical mass 3 with a single orb (add_orb by its owner
\* returns false).
C16_Witness ==
    /\ last.op = "click" /\ last.ret
    /\ \E pos \in Positions : grid[pos].orbs = <<>>
    /\ \E pos \in Positions :
           Len(grid[pos].orbs) = grid[pos].critical_mass - 1
    /\ \E pos \in Positions :
           Len(grid[pos].orbs) = 1 /\ grid[pos].critical_mass = 3

\* C17 as stated: once a chain has started the game loop is not left (the
\* window being closed apart) before the explosion queue has drained; a
\* reset or close request made mid-chain is honoured only after the queued
\* explosions have been processed.
C17_NoCancellation ==
    [][(pc = "run" /\ pc' = "returned" /\ last'.op # "quit")
          => explosion_queue' = <<>>]_vars

\* C17 as amended: a reset or close request does not leave the loop by
\* itself; the tick of the same iteration runs one update (at most one
\* explosion step) and then leaves the loop, whatever the queue holds.  The
\* loop is left mid-chain (queue non-empty or flag set) only by that tick
\* after a reset or close request or after a click whose win check found a
\* winner, or by the window being closed.
C17_LeftMidChainOnlyOnRequest ==
    [][/\ (pc = "run" /\ pc' = "returned") => last'.op \in {"tick", "quit"}
       /\ (/\ pc = "run" /\ pc' = "returned" /\ last'.op = "tick"
           /\ (explosion_queue' # <<>> \/ processing_explosions'))
          => /\ ~running
             /\ game_should_reset \/ game_should_close \/ winner # None
       /\ (last'.op = "tick" /\ (game_should_reset \/ game_should_close))
          => /\ pc' = "returned"
             /\ result' = IF game_should_reset THEN "reset" ELSE "close"
             /\ explosion_queue # <<>>
                    => /\ Len(explosion_queue') >= Len(explosion_queue) - 1
                       /\ SubSeq(explosion_queue', 1,
                                 Len(explosion_queue) - 1)
                              = Tail(explosion_queue)]_vars

\* C17 witness: run has returned "reset" with a position still queued.
C17_Witness ==
    /\ pc = "returned"
    /\ result = "reset"
    /\ explosion_queue # <<>>

\* C18: reset - applied to the Game of any reachable state, mid-chain
\* included, reset_game yields exactly the object that __init__ builds for
\* the same number of players (every cell empty and ownerless, current_player
\* 0, move_count 0, game_started false, players_who_played empty, queue
\* empty, no animations, processing and animating flags false, reset and
\* close flags false, post_explosion_winner null), and applying it twice
\* equals applying it once.
C18_ResetYieldsInitialState ==
    LET fresh == Constructed(num_players)
        once == reset_game(Game)
    IN  /\ \A field \in DOMAIN Game : once[field] = fresh[field]
        /\ \A pos \in Positions :
               once.grid[pos].orbs = <<>> /\ once.grid[pos].owner = None
        /\ once.current_player = 0 /\ once.move_count = 0
        /\ ~once.game_started /\ once.players_who_played = {}
        /\ once.explosion_queue = <<>> /\ once.animations = 0
        /\ ~once.processing_explosions /\ ~once.is_animating
        /\ ~once.game_should_reset /\ ~once.game_should_close
        /\ once.post_explosion_winner = None
        /\ reset_game(once) = once

\* C18 witness: a reset has been requested mid-chain, after a first explosion
\* step, with a position queued, animations in the list and the turn not
\* with player 0.
C18_Witness ==
    /\ last.op = "reset"
    /\ game_should_reset
    /\ processing_explosions /\ explosion_queue # <<>>
    /\ animations > 0
    /\ current_player # 0
    /\ players_who_played # {}

\* the elimination condition on the board g: exactly one player has orbs,
\* all players have played and the board holds an orb
C19_EliminationCondition(g, played, n) ==
    /\ Cardinality(players_with_orbs(g, n)) = 1
    /\ all_players_played(played, n)
    /\ total_orbs(g) > 0

C20_EliminationAgreesWithDomination ==
    LET by_elimination ==
            elimination_winner(grid, players_who_played, num_players)
        by_domination ==
            domination_winner(grid, players_who_played, num_players)
        domination_first ==
            IF ~game_started THEN None
            ELSE IF by_domination # None THEN by_domination
                 ELSE by_elimination
    IN  /\ (by_elimination # None /\ by_domination # None)
               => by_elimination = by_domination
        /\ check_win_condition(grid, game_started, players_who_played,
                               num_players) = domination_first

\* C20 witness: the win check made after a click has found a winner on a
\* board on which both conditions hold.
C20_Witness ==
    /\ last.op = "click"
    /\ winner # None
    /\ elimination_winner(grid, players_who_played, num_players) # None
    /\ domination_winner(grid, players_who_played, num_players) # None

\* the orders in which pending positions are popped: the first of the queue
\* (FIFO, as implemented), the last, or the second when there is one
C21_Orders == {"first", "last", "second"}

C21_Index(q, order) ==
    IF order = "first" THEN 1
    ELSE IF order = "last" THEN Len(q) ELSE Min(2, Len(q))

\* the board reached from board g and queue q when positions are popped in
\* the given order until the queue is empty (at most fuel steps), with
\* whether the queue drained and whether every popped cell held exactly its
\* critical mass
RECURSIVE C21_Drain(_, _, _, _)
C21_Drain(g, q, order, fuel) ==
    IF q = <<>> \/ fuel = 0
    THEN [grid |-> g, drained |-> q = <<>>, exact |-> TRUE]
    ELSE LET i == C21_Index(q, order)
             position == q[i]
             rest == SubSeq(q, 1, i - 1) \o SubSeq(q, i + 1, Len(q))
             after == handle_single_explosion(g, rest, 0,
                                              position[1], position[2])
             further == C21_Drain(after.grid, after.explosion_queue, order,
                                  fuel - 1)
         IN  [further EXCEPT
                 !.exact = @ /\ Len(g[position].orbs)
                                    = g[position].critical_mass]

\* C21 as stated: order independence - from every reachable board and
\* queue, the board reached when the chain has drained is the same whether
\* the pending positions are popped first-in-first-out or in another order.
C21_OrderIndependence ==
    \A order \in C21_Orders :
        LET fifo == C21_Drain(grid, explosion_queue, "first", MaxChainSteps)
            other == C21_Drain(grid, explosion_queue, order, MaxChainSteps)
        IN  (fifo.drained /\ other.drained) => other.grid = fifo.grid

\* the drained boards agree for all orders under which every popped cell
\* holds exactly its critical mass
C21_ExactOrdersAgree(g, q) ==
    \A order \in C21_Orders :
        LET fifo == C21_Drain(g, q, "first", MaxChainSteps)
            other == C21_Drain(g, q, order, MaxChainSteps)
        IN  (fifo.drained /\ other.drained /\ fifo.exact /\ other.exact)
            => other.grid = fifo.grid

\* C21 as amended: the board reached when the chain has drained is the one
\* of the first-in-first-out order, which every tick follows; it is the same
\* under another order when, under both, every popped cell holds exactly its
\* critical mass (explode discards the surplus of a cell that received an
\* orb while it was queued).
C21_FifoDecidesTheBoard ==
    [][/\ C21_ExactOrdersAgree(grid, explosion_queue)
       /\ C21_ExactOrdersAgree(grid', explosion_queue')
       /\ (last'.op = "tick" /\ explosion_queue # <<>>)
          => C21_Drain(grid', explosion_queue', "first", MaxChainSteps).grid
                 = C21_Drain(grid, explosion_queue, "first",
                             MaxChainSteps).grid]_vars

\* C21 witness: a tick has left two positions pending, and under every
\* order the chain drains with every popped cell at exactly its critical
\* mass.
C21_Witness ==
    /\ last.op = "tick"
    /\ Len(explosion_queue) >= 2
    /\ \A order \in C21_Orders :
           LET run == C21_Drain(grid, explosion_queue, order, MaxChainSteps)
           IN  run.drained /\ run.exact

\* C22: one step per tick - every tick pops at most one position, the head
\* of the queue, and explodes at most one cell, the popped one, however many
\* positions are queued; while the processing flag is set a tick either pops
\* exactly one position or, the queue being empty, clears the flag; an idle
\* tick changes neither board nor queue.
C22_OneStepPerTick ==
    [][last'.op = "tick" =>
          LET exploded == {pos \in Positions :
                              grid[pos].orbs # <<>> /\ grid'[pos].orbs = <<>>}
          IN  /\ Cardinality(exploded) <= 1
              /\ explosion_queue # <<>>
                    => /\ Len(explosion_queue') >= Len(explosion_queue) - 1
                       /\ SubSeq(explosion_queue', 1,
                                 Len(explosion_queue) - 1)
                              = Tail(explosion_queue)
                       /\ exploded \subseteq {Head(explosion_queue)}
                       /\ processing_explosions'
              /\ explosion_queue = <<>>
                    => /\ grid' = grid
                       /\ explosion_queue' = <<>>
                       /\ ~processing_explosions']_vars

\* C22 witness: a tick has exploded a cell, its animations are in the list,
\* and two positions are still pending.
C22_Witness ==
    /\ last.op = "tick"
    /\ processing_explosions
    /\ animations > 0
    /\ Len(explosion_queue) >= 2

\* C23: explosion step - a tick that pops a critical cell empties it, applies
\* add_orb with the owner the cell had to each of its four neighbour
\* coordinates inside the grid, skips the coordinates outside, appends to the
\* queue tail, in the order down, up, right, left, every neighbour that is
\* critical after receiving the orb and is not already queued, and changes no
\* other cell and no other queue entry.
C23_ExplosionStep ==
    [][(last'.op = "tick" /\ explosion_queue # <<>>) =>
          LET pos == Head(explosion_queue)
              cell == grid[pos]
              four == << <<pos[1] + 1, pos[2]>>, <<pos[1] - 1, pos[2]>>,
                         <<pos[1], pos[2] + 1>>, <<pos[1], pos[2] - 1>> >>
              inside == {four[i] : i \in 1 .. 4} \cap Positions
              pending == {explosion_queue[i] :
                              i \in 2 .. Len(explosion_queue)}
              appended(t) ==
                  /\ t \in inside
                  /\ Len(grid'[t].orbs) >= grid'[t].critical_mass
                  /\ t \notin pending
          IN  Len(cell.orbs) >= cell.critical_mass
              => /\ grid'[pos].orbs = <<>>
                 /\ grid'[pos].owner = None
                 /\ \A t \in inside : grid'[t] = add_orb(grid[t], cell.owner)
                 /\ \A other \in Positions \ (inside \cup {pos}) :
                        grid'[other] = grid[other]
                 /\ explosion_queue'
                        = Tail(explosion_queue) \o SelectSeq(four, appended)]_vars

\* C23 witness: a tick has exploded (1, 1), which captured player 1's orb on
\* (2, 1) for player 0, and (0, 0) is pending.
C23_Witness ==
    /\ last.op = "tick"
    /\ processing_explosions
    /\ grid[<<1, 1>>].orbs = <<>>
    /\ grid[<<2, 1>>].orbs = <<0>>
    /\ explosion_queue = << <<0, 0>> >>

\* C24: deduplication - in every reachable state the explosion queue holds
\* no position more than once.
C24_NoDuplicateInQueue ==
    \A i \in 1 .. Len(explosion_queue) : \A j \in 1 .. Len(explosion_queue) :
        explosion_queue[i] = explosion_queue[j] => i = j

\* C24 witness: a queued cell has received a further orb while queued (it
\* holds more than its critical mass) and was not queued again.
C24_Witness ==
    /\ last.op = "tick"
    /\ Len(explosion_queue) >= 2
    /\ \E i \in 1 .. Len(explosion_queue) :
           Len(grid[explosion_queue[i]].orbs)
               > grid[explosion_queue[i]].critical_mass

\* C25: FIFO order - a tick processes the head of the queue and moves every
\* other pending position one place forward, new positions arriving behind
\* them; no other step changes a non-empty queue.  Hence a position queued
\* before another is processed on an earlier tick.
C25_FifoOrder ==
    [][(last'.op # "init" /\ explosion_queue # <<>>) =>
          IF last'.op = "tick"
          THEN LET head == Head(explosion_queue)
                   pending == {explosion_queue[j] :
                                   j \in 2 .. Len(explosion_queue)}
               IN  /\ Len(explosion_queue') >= Len(explosion_queue) - 1
                   /\ \A j \in 2 .. Len(explosion_queue) :
                          explosion_queue'[j - 1] = explosion_queue[j]
                   /\ \A j \in Len(explosion_queue) .. Len(explosion_queue') :
                          explosion_queue'[j] \notin pending
                   /\ \A pos \in pending : grid'[pos].orbs # <<>>
                   /\ Len(grid[head].orbs) >= grid[head].critical_mass
                          => grid'[head].orbs = <<>>
          ELSE explosion_queue' = explosion_queue]_vars

\* C25 witness: (0, 1), queued by the first explosion, is at the head and
\* (1, 1), queued by the second, is behind it.
C25_Witness ==
    /\ last.op = "tick"
    /\ explosion_queue = << <<0, 1>>, <<1, 1>> >>

\* C26: start_explosion_chain is invoked only when the engine is idle - an
\* accepted move that brings the clicked cell to its critical mass, and so
\* starts a chain, finds the queue empty and the processing flag false, and
\* leaves the queue holding the clicked cell alone.
C26_ChainStartsWhenIdle ==
    [][(last'.op = "click" /\ last'.ret) =>
          \A pos \in Positions :
              (/\ grid'[pos] # grid[pos]
               /\ Len(grid'[pos].orbs) >= grid'[pos].critical_mass)
              => /\ explosion_queue = <<>>
                 /\ ~processing_explosions
                 /\ explosion_queue' = <<pos>>
                 /\ processing_explosions']_vars

\* C26 witness: an accepted move has started a chain on the edge cell (0, 1).
C26_Witness ==
    /\ last.op = "click" /\ last.ret
    /\ explosion_queue = << <<0, 1>> >>
    /\ processing_explosions
    /\ Len(grid[<<0, 1>>].orbs) = 3

\* C27: within one game (until a new Game is constructed) players_who_played
\* only grows - no click, tick, explosion, reset, close or quit step removes
\* a player from it - and game_started never goes from true back to false.
C27_PlayedOnlyGrows ==
    [][last'.op # "init" =>
          /\ players_who_played \subseteq players_who_played'
          /\ game_started => game_started']_vars

\* C27 witness: in a game of three players all of whom have moved, a chain
\* has run to its end and the win check has been made.
C27_Witness ==
    /\ num_players = 3
    /\ players_who_played = Players(num_players)
    /\ game_started
    /\ last.op = "tick" /\ last.checked

\* C28: post_explosion_winner is latched only at chain completion - it goes
\* from null to a player only on a tick that finds the queue empty and
\* clears the processing flag, without touching the board, its value is
\* what check_win_condition returns on that settled board, and once
\* non-null it is not changed until a new Game is constructed.
C28_WinnerLatchedAtCompletion ==
    [][last'.op # "init" =>
          /\ (post_explosion_winner = None /\ post_explosion_winner' # None)
             => /\ last'.op = "tick" /\ last'.checked
                /\ explosion_queue = <<>> /\ explosion_queue' = <<>>
                /\ processing_explosions /\ ~processing_explosions'
                /\ grid' = grid
                /\ post_explosion_winner'
                       = check_win_condition(grid, game_started,
                                             players_who_played, num_players)
          /\ post_explosion_winner # None
             => post_explosion_winner' = post_explosion_winner]_vars

\* C28 witness: the tick that completed a chain has latched a winner and run
\* has returned it.
C28_Witness ==
    /\ last.op = "tick" /\ last.checked
    /\ post_explosion_winner # None
    /\ winner = post_explosion_winner
    /\ pc = "returned" /\ result = "winner"

\* C29: stale queue entry - a step that pops a position whose cell holds
\* fewer orbs than its critical mass removes that position from the queue
\* and changes nothing else: no cell is modified, nothing is enqueued, no
\* animation is appended and the loop goes on.
C29_StaleEntryOnlyPopped ==
    [][(/\ last'.op = "tick"
        /\ explosion_queue # <<>>
        /\ Len(grid[Head(explosion_queue)].orbs)
               < grid[Head(explosion_queue)].critical_mass)
       => /\ explosion_queue' = Tail(explosion_queue)
          /\ grid' = grid
          /\ animations' <= animations
          /\ pc' = "run"
          /\ UNCHANGED <<processing_explosions, post_explosion_winner,
                         current_player, move_count, game_started,
                         players_who_played, winner, running>>]_vars

\* C29 witness: a tick has popped the first of two positions whose cells
\* hold orbs below critical mass, and the second is still queued.
C29_Witness ==
    /\ last.op = "tick"
    /\ Len(explosion_queue) = 1
    /\ processing_explosions
    /\ \E pos \in Positions :
          /\ pos # Head(explosion_queue)
          /\ grid[pos].orbs # <<>>
          /\ Len(grid[pos].orbs) < grid[pos].critical_mass
    /\ Len(grid[Head(explosion_queue)].orbs)
           < grid[Head(explosion_queue)].critical_mass

\* C30: is_animating is true in every state, observed between ticks, in
\* which the animation list is non-empty, also right after an explosion
\* step has appended animations.
C30_AnimatingWheneverListNonEmpty ==
    animations > 0 => is_animating

\* C30 as the code has it: a tick sets is_animating to whether the list was
\* non-empty when the tick began, no other step of a game changes the flag
\* or the list, and a non-empty list with the flag false is seen only while
\* a chain is being processed.
C30_FlagIsListAtTickStart ==
    [][/\ last'.op = "tick" => is_animating' = (animations > 0)
       /\ last'.op \notin {"tick", "init"}
          => is_animating' = is_animating /\ animations' = animations
       /\ (animations' > 0 /\ ~is_animating') => processing_explosions']_vars

\* C30 witness: a tick that began with no animation has exploded a cell, so
\* the list is non-empty and the flag is false.
C30_Witness ==
    /\ last.op = "tick"
    /\ animations > 0
    /\ ~is_animating
    /\ processing_explosions

\* the engine is idle: nothing is queued and no chain is being processed
Idle == explosion_queue = <<>> /\ ~processing_explosions

\* C31: idle stability - in every reachable state where the queue is empty
\* and the processing flag is false, every cell holds strictly fewer orbs
\* than its critical mass.
C31_IdleStability ==
    [](Idle => \A pos \in Positions :
                   Len(grid[pos].orbs) < grid[pos].critical_mass)

\* C31 witness: a chain of at least two explosions has completed, the engine
\* is idle again and orbs are on the board.
C31_Witness ==
    /\ Idle
    /\ last.op = "tick" /\ last.checked
    /\ pc = "run"
    /\ Cardinality({pos \in Positions : grid[pos].orbs # <<>>}) >= 3

\* C32: no deadlock - in every reachable state where the engine is idle and
\* no winner has been detected, the current player has a legal move: some
\* cell is empty or owned by current_player.
C32_NoDeadlock ==
    (/\ Idle
     /\ pc = "run"
     /\ winner = None
     /\ check_win_condition(grid, game_started, players_who_played,
                            num_players) = None)
    => \E pos \in Positions : legal_target(grid[pos])

\* the player who made the most recent accepted move
last_mover == (current_player + num_players - 1) % num_players

\* C33: winner is the last mover - whenever check_win_condition returns a
\* player in a reachable state, that player is the one who made the most
\* recent accepted move, (current_player - 1) mod num_players.
C33_WinnerIsLastMover ==
    [](LET res == check_win_condition(grid, game_started, players_who_played,
                                      num_players)
       IN  res # None => res = last_mover)

\* C33 witness: in a game of three players the win check made at the end of
\* a chain has returned the player who started it, and the turn has moved on
\* to the next player.
C33_Witness ==
    /\ num_players = 3
    /\ last.op = "tick" /\ last.checked
    /\ post_explosion_winner # None
    /\ post_explosion_winner = check_win_condition(
           grid, game_started, players_who_played, num_players)
    /\ post_explosion_winner = last_mover
    /\ current_player # post_explosion_winner

\* C34: wins arise only from chains - the win evaluation made right after an
\* accepted move that starts no chain returns no winner, and no move is
\* accepted on a board for which check_win_condition already returns a
\* winner.
C34_WinsOnlyFromChains ==
    [][(last'.op = "click" /\ last'.ret)
          => /\ check_win_condition(grid, game_started, players_who_played,
                                    num_players) = None
             /\ ~processing_explosions'
                => /\ check_win_condition(grid', game_started',
                                          players_who_played',
                                          num_players') = None
                   /\ winner' = winner /\ running' = running]_vars

\* C34 witness: every player has played, a chain has captured cells earlier
\* in the game, and a move has just been accepted without starting a chain.
C34_Witness ==
    /\ last.op = "click" /\ last.ret
    /\ ~processing_explosions
    /\ players_who_played = Players(num_players)
    /\ move_count > num_players
    /\ sum_orbs(grid, Positions) < move_count
    /\ winner = None

RECURSIVE orbs_in_first(_, _)
\* the orbs held by the first i cells of the board g, counted row by row
orbs_in_first(g, i) ==
    IF i = 0 THEN 0
    ELSE Len(g[<<(i - 1) \div GRID_SIZE, (i - 1) % GRID_SIZE>>].orbs)
             + orbs_in_first(g, i - 1)

\* the total number of orbs on the board g
orbs_on_board(g) == orbs_in_first(g, GRID_SIZE * GRID_SIZE)

\* C35: orb accounting - an accepted move adds exactly one orb to the board,
\* an explosion step never increases the total number of orbs on the board,
\* no other step changes it, and so the total is at most move_count.
C35_OrbAccounting ==
    [][LET before == orbs_on_board(grid)
           after == orbs_on_board(grid')
       IN  /\ after <= move_count'
           /\ CASE last'.op = "click" /\ last'.ret -> after = before + 1
                [] last'.op = "tick" -> after <= before
                [] last'.op = "init" -> after = 0
                [] OTHER -> after = before]_vars

\* C35 witness: an explosion step has just moved orbs onto neighbours, one
\* of them captured from another player, so the board holds fewer orbs than
\* moves were made.
C35_Witness ==
    /\ last.op = "tick" /\ ~last.checked
    /\ processing_explosions
    /\ orbs_on_board(grid) > 0
    /\ orbs_on_board(grid) < move_count
    /\ move_count >= 3

\* the cell holds at least its critical mass of orbs
is_critical(cell) == Len(cell.orbs) >= cell.critical_mass

\* C36: queue tracks critical cells - between ticks, while a chain is in
\* progress, a position is in the explosion queue if and only if its cell
\* holds at least critical-mass orbs; so the position a step pops is always
\* critical (no state queues a cell below critical mass).
C36_QueueTracksCriticalCells ==
    [](/\ \A i \in 1 .. Len(explosion_queue) :
              is_critical(grid[explosion_queue[i]])
       /\ processing_explosions
          => \A pos \in Positions :
                 is_critical(grid[pos]) => in_queue(explosion_queue, pos))

\* C36 witness: in the middle of a chain, after an explosion step, three
\* positions are queued while other cells hold orbs below critical mass.
C36_Witness ==
    /\ last.op = "tick"
    /\ processing_explosions
    /\ Len(explosion_queue) >= 3
    /\ \E pos \in Positions :
           grid[pos].orbs # <<>> /\ ~is_critical(grid[pos])

\* C37: chain ownership - every queued position is owned by the player whose
\* accepted move started the chain, so every cell that explodes is owned by
\* that player at the moment it explodes and the owner captured before
\* explode() is never null.
C37_ChainOwnership ==
    [](\A i \in 1 .. Len(explosion_queue) :
           /\ grid[explosion_queue[i]].owner # None
           /\ grid[explosion_queue[i]].owner = last_mover)

\* C37 witness: in the middle of a chain two positions are queued and
\* another player still owns a cell of the board.
C37_Witness ==
    /\ last.op = "tick"
    /\ Len(explosion_queue) >= 2
    /\ \E pos \in Positions : grid[pos].owner \notin {None, last_mover}

\* C38: orb-count bound - in every reachable state every cell holds at most
\* 2 * critical_mass - 1 orbs: at most 3 in a corner, 5 on an edge, 7 in the
\* interior.
C38_OrbCountBound ==
    [](\A pos \in Positions :
           /\ Len(grid[pos].orbs) <= 2 * grid[pos].critical_mass - 1
           /\ Len(grid[pos].orbs)
                  <= LET on_row == pos[1] \in {0, GRID_SIZE - 1}
                         on_col == pos[2] \in {0, GRID_SIZE - 1}
                     IN  IF on_row /\ on_col THEN 3
                         ELSE IF on_row \/ on_col THEN 5 ELSE 7)

\* C38 witness: a corner cell that became critical while another position was
\* queued ahead of it has received a further orb and holds 3 orbs, an interior
\* cell holds less than its critical mass.
C38_Witness ==
    /\ last.op = "tick"
    /\ in_queue(explosion_queue, <<0, 0>>)
    /\ grid[<<0, 0>>].critical_mass = 2
    /\ Len(grid[<<0, 0>>].orbs) = 3
    /\ Len(grid[<<4, 4>>].orbs) = 3

\* C39: input gate covers animations - whenever is_animating and
\* processing_explosions are both false the animation list is empty, so no
\* move is accepted while the animation list is non-empty, although
\* is_animating is recomputed only at the start of each tick.
C39_InputGateCoversAnimations ==
    [][/\ (~is_animating' /\ ~processing_explosions') => animations' = 0
       /\ (last'.op = "click" /\ last'.ret)
          => /\ ~is_animating /\ ~processing_explosions
             /\ animations = 0 /\ animations' = 0]_vars

\* C39 witness: after a chain whose animations have all finished, a move has
\* been accepted with the animation list empty.
C39_Witness ==
    /\ last.op = "click" /\ last.ret
    /\ animations = 0 /\ ~is_animating
    /\ ~processing_explosions
    /\ orbs_on_board(grid) < move_count
    /\ pc = "run"

====
